---- MODULE Spec2Model ----
(***************************************************************************)
(* The ledger server of src/server.ts: one SQLite table `transactions`     *)
(* behind four Express routes (list, append, delete, stats).  Each route   *)
(* handler runs to completion on Node's single thread and every statement  *)
(* is one autocommit SQLite statement, so each handler is one action.      *)
(* The client of src/src/App.tsx (fetchData, handleSubmit, handleDelete and *)
(* the views it derives) talks to the routes through requests in flight.   *)
(***************************************************************************)
EXTENDS Integers, Sequences, FiniteSets, Bags, TLC

\* ------------------------------------------------------------------ bounds
MaxSeq == 2       \* successful appends explored
MaxClock == 1     \* clock seconds explored (CURRENT_TIMESTAMP has 1 s resolution)
MaxInFlight == 2  \* requests and fetchData calls of the client in flight at once
MaxOther == 1     \* writes by callers other than the App explored

\* ------------------------------------------------------- JSON / SQL values
\* A value of a request body or of a table cell: its kind, and its number or
\* its text (the other field is at its default, so all values compare).
Undef == [k |-> "undefined", n |-> 0, s |-> ""]
Null == [k |-> "null", n |-> 0, s |-> ""]
Num(x) == [k |-> "number", n |-> x, s |-> ""]
Str(t) == [k |-> "string", n |-> 0, s |-> t]
Bool(x) == [k |-> "boolean", n |-> x, s |-> ""]

\* JavaScript truthiness, as `!amount || !type || !category || !date` reads it.
Truthy(x) ==
  CASE x.k = "undefined" -> FALSE
    [] x.k = "null" -> FALSE
    [] x.k = "number" -> x.n # 0
    [] x.k = "string" -> x.s # ""
    [] x.k = "boolean" -> x.n = 1

\* better-sqlite3 binds numbers, strings and null; anything else is a TypeError.
Bindable(x) == x.k \in {"number", "string", "null"}

\* The numeric literals among the texts of the model, with their values.
NumericText == << [t |-> "1000", n |-> 1000], [t |-> "0", n |-> 0], [t |-> "7", n |-> 7] >>
LooksNumeric(t) == \E i \in DOMAIN NumericText : NumericText[i].t = t
NumericValue(t) == NumericText[CHOOSE i \in DOMAIN NumericText : NumericText[i].t = t].n
DecimalText(x) == NumericText[CHOOSE i \in DOMAIN NumericText : NumericText[i].n = x].t

\* Column affinity applied to a bound value when it is stored.
RealAffinity(x) ==
  IF x.k = "string" /\ LooksNumeric(x.s) THEN Num(NumericValue(x.s)) ELSE x

TextAffinity(x) ==
  IF x.k = "number" THEN Str(DecimalText(x.n)) ELSE x

\* Mutant of CheckType: the table without its CHECK constraint.
CheckTypeAny(t) == TRUE

\* CHECK(type IN ('income', 'expense')); a NULL passes a CHECK.
CheckType(t) == t = Null \/ t \in {Str("income"), Str("expense")}

\* The NOT NULL columns.
NotNullOk(r) == r.amount # Null /\ r.type # Null /\ r.category # Null /\ r.date # Null

\* The ISO dates of the model in memcmp (BINARY collation) order.
DateLiterals == << "2024-01-01", "2024-01-02" >>
TextRank(t) == CHOOSE i \in DOMAIN DateLiterals : DateLiterals[i] = t

\* ------------------------------------------------------------------- state
VARIABLES
  rows,      \* the table: a set of records, at most one per id
  seq,       \* sqlite_sequence: the largest rowid AUTOINCREMENT ever assigned
  clock,     \* the wall clock in seconds
  op,        \* the route that answered last
  status,    \* its HTTP status
  retId,     \* the id of its body (append, 200), else 0
  listed,    \* the array of its body (list, 200), else << >>
  stats,     \* the object of its body (stats, 200), else NoStats
  issued,    \* history: the ids returned by successful appends, in order
  prev,      \* history: retId of the response before the last one
  client,    \* the React state of App
  net        \* the client's requests and fetchData calls in flight, a bag

vars == << rows, seq, clock, op, status, retId, listed, stats, issued, prev, client, net >>

NoStats == [total_income |-> Undef, total_expense |-> Undef]

Ids(S) == {r.id : r \in S}

\* useState: no transactions, zero stats, nothing chosen for deletion (null is
\* the empty sequence, a chosen transaction the sequence of it).  alerted: the
\* alert of handleDelete was shown since a transaction was last chosen.
\* foreign is history: the writes callers other than the App have made.
InitialClient ==
  [ transactions |-> << >>,
    stats |-> [total_income |-> Num(0), total_expense |-> Num(0)],
    deletingTransaction |-> << >>,
    deleteConfirmText |-> "",
    alerted |-> FALSE,
    foreign |-> 0 ]

Init ==
  /\ client = InitialClient
  /\ net = EmptyBag
  /\ rows = {}
  /\ seq = 0
  /\ clock = 0
  /\ op = "none"
  /\ status = 0
  /\ retId = 0
  /\ listed = << >>
  /\ stats = NoStats
  /\ issued = << >>
  /\ prev = 0

\* res.json / res.status(..).json: the response replaces the previous one.
Respond(o, st, id, ls, ss) ==
  /\ op' = o
  /\ status' = st
  /\ retId' = id
  /\ listed' = ls
  /\ stats' = ss
  /\ prev' = retId

\* ------------------------------------------------------------------ append
\* const { amount, type, category, description, date } = req.body
Body(a, t, c, d, dt) == [amount |-> a, type |-> t, category |-> c, description |-> d, date |-> dt]

MissingFields(b) ==
  ~Truthy(b.amount) \/ ~Truthy(b.type) \/ ~Truthy(b.category) \/ ~Truthy(b.date)

\* AUTOINCREMENT: one more than the largest rowid ever used.
Max(a, b) == IF a >= b THEN a ELSE b
MaxId(S) == IF S = {} THEN 0 ELSE CHOOSE m \in Ids(S) : \A i \in Ids(S) : i <= m
\* Mutant of NextRowid: INTEGER PRIMARY KEY without AUTOINCREMENT.
NextRowidReused == MaxId(rows) + 1

NextRowid == Max(seq, MaxId(rows)) + 1

\* Mutant of NewRow: category and description bound in each other's place.
NewRowSwapped(b) ==
  [ id |-> NextRowid,
    amount |-> RealAffinity(b.amount),
    type |-> TextAffinity(b.type),
    category |-> TextAffinity(b.description),
    description |-> TextAffinity(b.category),
    date |-> TextAffinity(b.date),
    created_at |-> clock ]

\* The row INSERT builds: affinities applied, created_at from the default.
NewRow(b) ==
  [ id |-> NextRowid,
    amount |-> RealAffinity(b.amount),
    type |-> TextAffinity(b.type),
    category |-> TextAffinity(b.category),
    description |-> TextAffinity(b.description),
    date |-> TextAffinity(b.date),
    created_at |-> clock ]

\* Whether .run(...) throws: a value it cannot bind, a constraint, a storage fault.
RunThrows(b, fault) ==
  \/ fault
  \/ \E f \in DOMAIN b : ~Bindable(b[f])
  \/ ~NotNullOk(NewRow(b))
  \/ ~CheckType(NewRow(b).type)

\* Mutant of PostTransaction: the id is acknowledged whether or not .run threw.
PostTransactionAckFirst(b, fault) ==
  IF MissingFields(b)
  THEN /\ Respond("append", 400, 0, << >>, NoStats)
       /\ UNCHANGED << rows, seq, clock, issued >>
  ELSE IF RunThrows(b, fault)
  THEN /\ Respond("append", 200, NextRowid, << >>, NoStats)
       /\ UNCHANGED << rows, seq, clock, issued >>
  ELSE /\ Len(issued) < MaxSeq
       /\ rows' = rows \cup {NewRow(b)}
       /\ seq' = NextRowid
       /\ issued' = Append(issued, NextRowid)
       /\ Respond("append", 200, NextRowid, << >>, NoStats)
       /\ UNCHANGED clock

\* app.post("/api/transactions"); fault: the storage layer fails this statement.
PostTransaction(b, fault) ==
  IF MissingFields(b)
  THEN /\ Respond("append", 400, 0, << >>, NoStats)
       /\ UNCHANGED << rows, seq, clock, issued >>
  ELSE IF RunThrows(b, fault)
  THEN /\ Respond("append", 500, 0, << >>, NoStats)
       /\ UNCHANGED << rows, seq, clock, issued >>
  ELSE /\ Len(issued) < MaxSeq
       /\ rows' = rows \cup {NewRow(b)}
       /\ seq' = NextRowid
       /\ issued' = Append(issued, NextRowid)
       /\ Respond("append", 200, NextRowid, << >>, NoStats)
       /\ UNCHANGED clock

\* ------------------------------------------------------------------ delete
\* req.params.id is the text of the path segment, bound as TEXT.  The rowid
\* lookup applies NUMERIC affinity to it and finds no row unless the text
\* converts to an integer without loss.
Digits == << "0", "1", "2", "3", "4", "5", "6", "7", "8", "9" >>
IsDigit(c) == \E i \in DOMAIN Digits : Digits[i] = c
DigitVal(c) == (CHOOSE i \in DOMAIN Digits : Digits[i] = c) - 1

RECURSIVE DecimalValue(_)
DecimalValue(p) ==
  IF p = << >> THEN 0
  ELSE 10 * DecimalValue(SubSeq(p, 1, Len(p) - 1)) + DigitVal(p[Len(p)])

AllDigits(p) == Len(p) >= 1 /\ \A i \in DOMAIN p : IsDigit(p[i])
AllZeros(p) == Len(p) >= 1 /\ \A i \in DOMAIN p : p[i] = "0"

NoKey == -1

\* Mutant of SeekRowidKey: the text is compared as text and equals no rowid.
SeekRowidKeyAsText(p) == NoKey

SeekRowidKey(p) ==
  IF AllDigits(p) THEN DecimalValue(p)
  ELSE IF \E d \in DOMAIN p :
            /\ p[d] = "."
            /\ AllDigits(SubSeq(p, 1, d - 1))
            /\ AllZeros(SubSeq(p, d + 1, Len(p)))
       THEN LET d == CHOOSE d \in DOMAIN p : p[d] = "."
            IN DecimalValue(SubSeq(p, 1, d - 1))
       ELSE NoKey

\* Mutant of DeleteWhere: WHERE id <= ?
DeleteWhereUpTo(p) == {r \in rows : r.id <= SeekRowidKey(p)}

\* DELETE FROM transactions WHERE id = ?
DeleteWhere(p) == {r \in rows : r.id = SeekRowidKey(p)}

\* Mutant of DeleteTransaction: success is answered and the statement is lost.
DeleteTransactionLost(p, fault) ==
  IF fault
  THEN /\ Respond("delete", 500, 0, << >>, NoStats)
       /\ UNCHANGED << rows, seq, clock, issued >>
  ELSE /\ Respond("delete", 200, 0, << >>, NoStats)
       /\ UNCHANGED << rows, seq, clock, issued >>

\* app.delete("/api/transactions/:id")
DeleteTransaction(p, fault) ==
  IF fault
  THEN /\ Respond("delete", 500, 0, << >>, NoStats)
       /\ UNCHANGED << rows, seq, clock, issued >>
  ELSE /\ rows' = rows \ DeleteWhere(p)
       /\ Respond("delete", 200, 0, << >>, NoStats)
       /\ UNCHANGED << seq, clock, issued >>

\* -------------------------------------------------------------------- list
\* ORDER BY date DESC, created_at DESC: a sorts before b.
SortsBefore(a, b) ==
  \/ TextRank(a.date.s) > TextRank(b.date.s)
  \/ /\ a.date = b.date
     /\ a.created_at > b.created_at

\* Every result the ORDER BY allows: rows with equal keys come in any order.
OrderedResults(S) ==
  LET n == Cardinality(S)
  IN {f \in [1..n -> S] :
        /\ \A i, j \in 1..n : i # j => f[i] # f[j]
        /\ \A i, j \in 1..n : i < j => ~SortsBefore(f[j], f[i])}

\* app.get("/api/transactions")
GetTransactions(fault) ==
  IF fault
  THEN /\ Respond("list", 500, 0, << >>, NoStats)
       /\ UNCHANGED << rows, seq, clock, issued >>
  ELSE \E result \in OrderedResults(rows) :
         /\ Respond("list", 200, 0, result, NoStats)
         /\ UNCHANGED << rows, seq, clock, issued >>

\* ------------------------------------------------------------------- stats
\* The double SUM() adds for a cell: a text that is no number counts as 0.
SumOperand(x) == IF x.k = "number" THEN x.n ELSE 0

\* Mutant of CaseWhen: the amount is summed whatever the type.
CaseWhenAnyType(r, t) == SumOperand(r.amount)

\* CASE WHEN type = t THEN amount ELSE 0 END
CaseWhen(r, t) == IF r.type = Str(t) THEN SumOperand(r.amount) ELSE 0

\* SUM(...) over the table in rowid order; NULL when the table has no row.
RECURSIVE SumStep(_, _)
SumStep(S, t) ==
  IF S = {} THEN 0
  ELSE LET r == CHOOSE x \in S : x.id = MaxId(S)
       IN SumStep(S \ {r}, t) + CaseWhen(r, t)

SqlSum(t) == IF rows = {} THEN Null ELSE Num(SumStep(rows, t))

\* app.get("/api/stats")
GetStats(fault) ==
  IF fault
  THEN /\ Respond("stats", 500, 0, << >>, NoStats)
       /\ UNCHANGED << rows, seq, clock, issued >>
  ELSE /\ Respond("stats", 200, 0, << >>,
                  [total_income |-> SqlSum("income"), total_expense |-> SqlSum("expense")])
       /\ UNCHANGED << rows, seq, clock, issued >>

\* ------------------------------------------------------------------- clock
Tick ==
  /\ clock < MaxClock
  /\ clock' = clock + 1
  /\ UNCHANGED << rows, seq, op, status, retId, listed, stats, issued, prev >>

\* ------------------------------------------------------------------ inputs
BaseBody == Body(Num(50), Str("expense"), Str("food"), Str(""), Str(DateLiterals[1]))

\* Bodies the client's form can send, and the base body with one field changed
\* to a value the form cannot send but the route still receives.
WellFormedBodies ==
  { BaseBody,
    Body(Num(1000), Str("income"), Str("salary"), Str("bonus"), Str(DateLiterals[2])) }

OddBodies ==
     { [BaseBody EXCEPT !.amount = a] :
         a \in {Num(0), Num(-5), Str("abc"), Str("1000"), Undef, Bool(1)} }
  \cup { [BaseBody EXCEPT !.type = t] : t \in {Str("transfer"), Undef} }
  \cup { [BaseBody EXCEPT !.category = c] : c \in {Num(7), Str(""), Undef} }
  \cup { [BaseBody EXCEPT !.description = d] : d \in {Undef} }
  \cup { [BaseBody EXCEPT !.date = d] : d \in {Str(""), Undef} }

Bodies == WellFormedBodies \cup OddBodies

\* The path segment that is the decimal text of id n (n < 10).
IdParam(n) == << Digits[n + 1] >>

Params ==
     { IdParam(n) : n \in 1..(MaxSeq + 1) }
  \cup { << "1", ".", "0" >>, << "0", "1" >>, << "1", ".", "5" >>, << "1", "a" >>, << "a", "b", "c" >> }

\* ----------------------------------------------------------- specification
\* The routes alone, called by any HTTP client; the App is not running.
AppIdle == UNCHANGED << client, net >>

Next ==
  \/ \E b \in Bodies : PostTransaction(b, FALSE) /\ AppIdle
  \/ PostTransaction(BaseBody, TRUE) /\ AppIdle
  \/ \E p \in Params : DeleteTransaction(p, FALSE) /\ AppIdle
  \/ DeleteTransaction(IdParam(1), TRUE) /\ AppIdle
  \/ \E fault \in BOOLEAN : GetTransactions(fault) /\ AppIdle
  \/ \E fault \in BOOLEAN : GetStats(fault) /\ AppIdle
  \/ Tick /\ AppIdle

Spec == Init /\ [][Next]_vars

\* ------------------------------------------------------------------ client
\* A fetch() of the App in flight, or a fetchData() call with its two: what was
\* sent, and once the route has answered, what it answered.  removed is
\* history: the number of rows the DELETE removed.
Request(kind, body, param) ==
  [ kind |-> kind, body |-> body, param |-> param,
    done |-> FALSE, ok |-> FALSE, removed |-> 0,
    tDone |-> FALSE, tList |-> << >>,
    sDone |-> FALSE, sStats |-> NoStats ]

NoBody == Body(Undef, Undef, Undef, Undef, Undef)
FetchData == Request("fetchData", NoBody, << >>)

InFlight == BagToSet(net)
Sent(x) == net (+) SetToBag({x})
Settled(x) == net (-) SetToBag({x})
Answered(x, y) == (net (-) SetToBag({x})) (+) SetToBag({y})

\* Number(formData.amount) for the texts typed in the model; NaN has no entry.
NumberOfText == << [t |-> "50", n |-> 50], [t |-> "1000", n |-> 1000], [t |-> "0", n |-> 0], [t |-> "", n |-> 0] >>
IsNaNText(t) == ~\E i \in DOMAIN NumberOfText : NumberOfText[i].t = t
JsNumber(t) == NumberOfText[CHOOSE i \in DOMAIN NumberOfText : NumberOfText[i].t = t].n

\* formData as the user has filled it in.
FormData(a, t, c, d, dt) == [amount |-> a, type |-> t, category |-> c, description |-> d, date |-> dt]

Forms ==
  { FormData("50", "expense", "food", "", DateLiterals[1]),
    FormData("1000", "income", "salary", "bonus", DateLiterals[2]),
    FormData("0", "expense", "food", "", DateLiterals[1]),
    FormData("abc", "expense", "food", "", DateLiterals[1]),
    FormData("", "expense", "food", "", DateLiterals[1]) }

\* JSON.stringify({...formData, amount: Number(formData.amount)})
SubmitBody(f) ==
  Body(Num(JsNumber(f.amount)), Str(f.type), Str(f.category), Str(f.description), Str(f.date))

\* handleSubmit up to its await: nothing happens for an empty or non-numeric
\* amount, else the POST is sent.
HandleSubmit(f) ==
  IF f.amount = "" \/ IsNaNText(f.amount)
  THEN UNCHANGED vars
  ELSE /\ BagCardinality(net) < MaxInFlight
       /\ Len(issued) < MaxSeq
       /\ net' = Sent(Request("post", SubmitBody(f), << >>))
       /\ UNCHANGED << rows, seq, clock, op, status, retId, listed, stats, issued, prev, client >>

\* The route answers a POST of the App.
ServePost(x) ==
  /\ x.kind = "post" /\ ~x.done
  /\ PostTransaction(x.body, FALSE)
  /\ net' = Answered(x, [x EXCEPT !.done = TRUE, !.ok = (status' = 200)])
  /\ UNCHANGED client

\* handleSubmit after its await: if (res.ok) { setFormData(...); fetchData() }
SubmitAnswered(x) ==
  /\ x.kind = "post" /\ x.done
  /\ net' = IF x.ok THEN Answered(x, FetchData) ELSE Settled(x)
  /\ UNCHANGED << rows, seq, clock, op, status, retId, listed, stats, issued, prev, client >>

\* The routes answer the two GETs of a fetchData call, in either order.
ServeList(x) ==
  /\ x.kind = "fetchData" /\ ~x.tDone
  /\ GetTransactions(FALSE)
  /\ net' = Answered(x, [x EXCEPT !.tDone = TRUE, !.tList = listed'])
  /\ UNCHANGED client

ServeStats(x) ==
  /\ x.kind = "fetchData" /\ ~x.sDone
  /\ GetStats(FALSE)
  /\ net' = Answered(x, [x EXCEPT !.sDone = TRUE, !.sStats = stats'])
  /\ UNCHANGED client

\* fetchData after Promise.all: setTransactions(tData); setStats(sData)
FetchResolved(x) ==
  /\ x.kind = "fetchData" /\ x.tDone /\ x.sDone
  /\ client' = [client EXCEPT !.transactions = x.tList, !.stats = x.sStats]
  /\ net' = Settled(x)
  /\ UNCHANGED << rows, seq, clock, op, status, retId, listed, stats, issued, prev >>

ServerIdle == UNCHANGED << rows, seq, clock, op, status, retId, listed, stats, issued, prev >>

\* The trash button of a listed transaction:
\* setDeletingTransaction(t); setDeleteConfirmText('')
ChooseDelete(i) ==
  /\ i \in DOMAIN client.transactions
  /\ client' = [client EXCEPT !.deletingTransaction = << client.transactions[i] >>,
                              !.deleteConfirmText = "",
                              !.alerted = FALSE]
  /\ UNCHANGED net
  /\ ServerIdle

\* The texts typed into the confirmation input of the modal.
ConfirmTexts == {"food", "salary"}

\* onChange of the input: setDeleteConfirmText(e.target.value)
TypeConfirm(text) ==
  /\ client.deletingTransaction # << >>
  /\ client' = [client EXCEPT !.deleteConfirmText = text, !.alerted = FALSE]
  /\ UNCHANGED net
  /\ ServerIdle

\* The backdrop and the cancel button: setDeletingTransaction(null)
CancelDelete ==
  /\ client.deletingTransaction # << >>
  /\ client' = [client EXCEPT !.deletingTransaction = << >>, !.alerted = FALSE]
  /\ UNCHANGED net
  /\ ServerIdle

\* `/api/transactions/${deletingTransaction.id}`: the id as decimal text.
DeletePath(t) == IdParam(t.id)

\* Mutant of HandleDelete: the request is sent whatever the text.
HandleDeleteUnconfirmed ==
  IF client.deletingTransaction = << >>
  THEN UNCHANGED vars
  ELSE /\ BagCardinality(net) < MaxInFlight
       /\ net' = Sent(Request("delete", NoBody, DeletePath(client.deletingTransaction[1])))
       /\ UNCHANGED client
       /\ ServerIdle

\* handleDelete up to its await.  The confirm button is disabled while the
\* text differs, so the first two branches are the function called directly.
HandleDelete ==
  IF client.deletingTransaction = << >>
  THEN UNCHANGED vars
  ELSE IF Str(client.deleteConfirmText) # client.deletingTransaction[1].category
  THEN /\ client' = [client EXCEPT !.alerted = TRUE]
       /\ UNCHANGED net
       /\ ServerIdle
  ELSE /\ BagCardinality(net) < MaxInFlight
       /\ net' = Sent(Request("delete", NoBody, DeletePath(client.deletingTransaction[1])))
       /\ UNCHANGED client
       /\ ServerIdle

\* The route answers a DELETE of the App.
ServeDelete(x, fault) ==
  /\ x.kind = "delete" /\ ~x.done
  /\ DeleteTransaction(x.param, fault)
  /\ net' = Answered(x, [x EXCEPT !.done = TRUE, !.ok = (status' = 200),
                                  !.removed = Cardinality(rows \ rows')])
  /\ UNCHANGED client

\* handleDelete after its await:
\* if (res.ok) { setDeletingTransaction(null); setDeleteConfirmText(''); fetchData() }
DeleteAnswered(x) ==
  /\ x.kind = "delete" /\ x.done
  /\ IF x.ok
     THEN /\ client' = [client EXCEPT !.deletingTransaction = << >>, !.deleteConfirmText = ""]
          /\ net' = Answered(x, FetchData)
     ELSE /\ UNCHANGED client
          /\ net' = Settled(x)
  /\ ServerIdle

\* Another caller of the API appends a body the form cannot send, or deletes
\* the newest record.
ForeignBody == [BaseBody EXCEPT !.amount = Str("abc")]

OtherWriter ==
  /\ client.foreign < MaxOther
  /\ \/ PostTransaction(ForeignBody, FALSE)
     \/ rows # {} /\ DeleteTransaction(IdParam(MaxId(rows)), FALSE)
  /\ client' = [client EXCEPT !.foreign = client.foreign + 1]
  /\ UNCHANGED net

\* useEffect(() => { fetchData() }, []): the App starts with its first
\* fetchData in flight; finance.db is new.
ClientInit ==
  /\ client = InitialClient
  /\ net = SetToBag({FetchData})
  /\ rows = {}
  /\ seq = 0
  /\ clock = 0
  /\ op = "none"
  /\ status = 0
  /\ retId = 0
  /\ listed = << >>
  /\ stats = NoStats
  /\ issued = << >>
  /\ prev = 0

\* A session in which the user adds transactions.
SubmitNext ==
  \/ \E f \in Forms : HandleSubmit(f)
  \/ \E x \in InFlight : ServePost(x)
  \/ \E x \in InFlight : SubmitAnswered(x)
  \/ \E x \in InFlight : ServeList(x)
  \/ \E x \in InFlight : ServeStats(x)
  \/ \E x \in InFlight : FetchResolved(x)
  \/ OtherWriter

SubmitSpec == ClientInit /\ [][SubmitNext]_vars

\* finance.db as an earlier session left it: the two well-formed bodies
\* appended, in the rows INSERT built for them.
IncomeBody == Body(Num(1000), Str("income"), Str("salary"), Str("bonus"), Str(DateLiterals[2]))

StoredRow(id, b, at) ==
  [ id |-> id,
    amount |-> RealAffinity(b.amount),
    type |-> TextAffinity(b.type),
    category |-> TextAffinity(b.category),
    description |-> TextAffinity(b.description),
    date |-> TextAffinity(b.date),
    created_at |-> at ]

PersistedRows == {StoredRow(1, BaseBody, 0), StoredRow(2, IncomeBody, 0)}

\* The App starts on that file.
DeleteInit ==
  /\ client = InitialClient
  /\ net = SetToBag({FetchData})
  /\ rows = PersistedRows
  /\ seq = 2
  /\ clock = 0
  /\ op = "none"
  /\ status = 0
  /\ retId = 0
  /\ listed = << >>
  /\ stats = NoStats
  /\ issued = << 1, 2 >>
  /\ prev = 0

\* A session in which the user deletes transactions.
DeleteNext ==
  \/ \E x \in InFlight : ServeList(x)
  \/ \E x \in InFlight : ServeStats(x)
  \/ \E x \in InFlight : FetchResolved(x)
  \/ \E i \in 1..MaxSeq : ChooseDelete(i)
  \/ \E text \in ConfirmTexts : TypeConfirm(text)
  \/ CancelDelete
  \/ HandleDelete
  \/ \E x \in InFlight, fault \in BOOLEAN : ServeDelete(x, fault)
  \/ \E x \in InFlight : DeleteAnswered(x)

DeleteSpec == DeleteInit /\ [][DeleteNext]_vars

\* ------------------------------------------------------------ derived views
\* JavaScript arithmetic on the values of a response.
NaN == [k |-> "NaN", n |-> 0, s |-> ""]

\* x || 0
OrZero(x) == IF Truthy(x) THEN x ELSE Num(0)

\* ToNumber, as the operator - applies it.
ToNumber(x) ==
  CASE x.k = "number" -> x
    [] x.k = "null" -> Num(0)
    [] x.k = "boolean" -> Num(x.n)
    [] x.k = "string" -> IF x.s = "" THEN Num(0)
                         ELSE IF LooksNumeric(x.s) THEN Num(NumericValue(x.s))
                         ELSE NaN
    [] OTHER -> NaN

Minus(a, b) ==
  IF ToNumber(a) = NaN \/ ToNumber(b) = NaN
  THEN NaN
  ELSE Num(ToNumber(a).n - ToNumber(b).n)

\* Mutant of balance: the operands of the subtraction exchanged.
balanceSwapped(s) == Minus(OrZero(s.total_expense), OrZero(s.total_income))

\* const balance = (stats.total_income || 0) - (stats.total_expense || 0)
balance(s) == Minus(OrZero(s.total_income), OrZero(s.total_expense))

\* Number.prototype.toString for an integer.
RECURSIVE DecimalString(_)
DecimalString(n) ==
  IF n < 0 THEN "-" \o DecimalString(0 - n)
  ELSE IF n < 10 THEN Digits[n + 1]
  ELSE DecimalString(n \div 10) \o Digits[(n % 10) + 1]

\* ToString, as the operator + applies it next to a string.
ToText(x) ==
  CASE x.k = "string" -> x.s
    [] x.k = "number" -> DecimalString(x.n)
    [] x.k = "null" -> "null"
    [] x.k = "NaN" -> "NaN"
    [] OTHER -> "undefined"

\* a + b: concatenation as soon as one operand is a string.
Plus(a, b) ==
  IF a.k = "string" \/ b.k = "string"
  THEN Str(ToText(a) \o ToText(b))
  ELSE IF ToNumber(a) = NaN \/ ToNumber(b) = NaN
  THEN NaN
  ELSE Num(ToNumber(a).n + ToNumber(b).n)

\* The reduce of categoryData at key c after the first i transactions:
\* acc[t.category] = (acc[t.category] || 0) + t.amount, over type 'expense'.
RECURSIVE CategoryAcc(_, _, _)
CategoryAcc(ts, c, i) ==
  IF i = 0 THEN Undef
  ELSE IF ts[i].type = Str("expense") /\ ts[i].category = c
  THEN Plus(OrZero(CategoryAcc(ts, c, i - 1)), ts[i].amount)
  ELSE CategoryAcc(ts, c, i - 1)

\* categoryData as the object the reduce builds: name -> value.
categoryData(ts) ==
  [ c \in {ts[i].category : i \in {j \in DOMAIN ts : ts[j].type = Str("expense")}}
      |-> CategoryAcc(ts, c, Len(ts)) ]

\* grouped[date].filter(t => t.type === 'expense').reduce((sum, t) => sum + t.amount, 0)
RECURSIVE ExpenseOfDay(_, _)
ExpenseOfDay(g, i) ==
  IF i = 0 THEN Num(0)
  ELSE IF g[i].type = Str("expense")
  THEN Plus(ExpenseOfDay(g, i - 1), g[i].amount)
  ELSE ExpenseOfDay(g, i - 1)

\* Object.keys(grouped).sort((a, b) => b.localeCompare(a)): the dates of the
\* transactions, the later date first.
SortedDates(ts) ==
  LET dates == {ts[i].date : i \in DOMAIN ts}
      n == Cardinality(dates)
  IN CHOOSE f \in [1..n -> dates] :
       \A i, j \in 1..n : i < j => TextRank(f[i].s) > TextRank(f[j].s)

\* grouped, as it is rendered: per date its transactions in list order and the
\* day's expense.
grouped(ts) ==
  [ k \in DOMAIN SortedDates(ts) |->
      LET d == SortedDates(ts)[k]
          members == SelectSeq(ts, LAMBDA t : t.date = d)
      IN [ date |-> d, members |-> members, total |-> ExpenseOfDay(members, Len(members)) ] ]

\* ------------------------------------------------------------------ claims
Income == Str("income")
Expense == Str("expense")
Range(f) == {f[i] : i \in DOMAIN f}

\* A step in which a route answered: every route leaves the clock alone, the
\* clock's step leaves the response alone, and the response names the route.
AppendStep == op' = "append" /\ clock' = clock
DeleteStep == op' = "delete" /\ clock' = clock
ListStep == op' = "list" /\ clock' = clock

\* An input the data model calls valid: a positive number, one of the two
\* types, a non-empty category text, a date text.
ValidInput(b) ==
  /\ b.amount.k = "number" /\ b.amount.n > 0
  /\ b.type \in {Income, Expense}
  /\ b.category.k = "string" /\ b.category.s # ""
  /\ b.date.k = "string" /\ b.date.s # ""

\* C1: a successful append of a valid input adds exactly one record, which
\* carries the submitted amount, type, category, description and date under
\* the returned id, an id no other record has; and a list that answers next
\* returns every stored record once, the appended one among them exactly once.
C1_AppendThenList ==
  [][ /\ (AppendStep /\ status' = 200)
           => \A b \in Bodies :
                (ValidInput(b) /\ PostTransaction(b, FALSE))
                  => \E r \in rows' :
                       /\ r \notin rows
                       /\ rows' = rows \cup {r}
                       /\ Cardinality(rows') = Cardinality(rows) + 1
                       /\ r.id = retId'
                       /\ r.id \notin Ids(rows)
                       /\ r.amount = b.amount
                       /\ r.type = b.type
                       /\ r.category = b.category
                       /\ r.description = b.description
                       /\ r.date = b.date
      /\ (ListStep /\ status' = 200)
           => /\ Len(listed') = Cardinality(rows)
              /\ \A r \in rows : Cardinality({i \in DOMAIN listed' : listed'[i] = r}) = 1
              /\ (op = "append" /\ status = 200)
                   => Cardinality({i \in DOMAIN listed' : listed'[i].id = retId}) = 1
    ]_vars

\* C1 witness: a list answered right after a successful append, and shows the
\* appended record next to an older one.
C1_Witness ==
  /\ op = "list" /\ status = 200
  /\ prev # 0
  /\ Len(listed) >= 2
  /\ \E i \in DOMAIN listed : listed[i].id = prev /\ ValidInput(listed[i])

\* What the claim calls an invalid input.
InvalidInput(b) ==
  \/ b.amount.k = "number" /\ b.amount.n <= 0
  \/ b.category = Undef
  \/ b.date = Undef
  \/ b.type = Undef
  \/ b.type \notin {Income, Expense}

\* C2 (as claimed): an append of an invalid input answers 400 and leaves the
\* stored records as they were.
C2_InvalidRejected ==
  [][ \A b \in Bodies :
        (InvalidInput(b) /\ PostTransaction(b, FALSE))
          => (status' = 400 /\ rows' = rows)
    ]_vars

\* The sum of the amounts of a set of records, a text amount counting as 0.
RECURSIVE SumOfAmounts(_)
SumOfAmounts(S) ==
  IF S = {} THEN 0
  ELSE LET r == CHOOSE x \in S : TRUE
       IN (IF r.amount.k = "number" THEN r.amount.n ELSE 0) + SumOfAmounts(S \ {r})

\* C3: with at least one record stored, stats answers the sum of the amounts
\* of the stored income records and of the stored expense records.
C3_TotalsAreSums ==
  (op = "stats" /\ status = 200 /\ rows # {})
    => /\ stats.total_income = Num(SumOfAmounts({r \in rows : r.type = Income}))
       /\ stats.total_expense = Num(SumOfAmounts({r \in rows : r.type = Expense}))

\* C3 witness: stats answered after a deletion that left one expense record,
\* with no income and that record's amount as the totals.
C3_Witness ==
  /\ op = "stats" /\ status = 200
  /\ Len(issued) > Cardinality(rows)
  /\ \E r \in rows : r.type = Expense /\ r.amount = Num(50)
  /\ stats = [total_income |-> Num(0), total_expense |-> Num(50)]

\* C4 (as claimed): on an empty store stats answers 0 and 0.
C4_EmptyTotalsZero ==
  (op = "stats" /\ status = 200 /\ rows = {})
    => /\ stats.total_income = Num(0)
       /\ stats.total_expense = Num(0)

\* The path segments that are the text of no integer.
JunkParams == { << "1", "a" >>, << "a", "b", "c" >>, << "1", ".", "5" >> }

\* C5: a delete that the storage layer serves answers success; given an id it
\* removes the record of that id and no other, and given an id that is not
\* stored (deleted before, or never assigned) or a text that is no id it
\* leaves the store as it was.
C5_DeleteIdempotent ==
  [][ DeleteStep
        => /\ \A n \in 1..(MaxSeq + 1) :
                DeleteTransaction(IdParam(n), FALSE)
                  => /\ status' = 200
                     /\ rows' = {r \in rows : r.id # n}
                     /\ (n \notin Ids(rows) => rows' = rows)
           /\ \A p \in JunkParams :
                DeleteTransaction(p, FALSE) => (status' = 200 /\ rows' = rows)
    ]_vars

\* C5 witness: a delete answered success, a record is gone and another remains.
C5_Witness ==
  /\ op = "delete" /\ status = 200
  /\ Len(issued) > Cardinality(rows)
  /\ rows # {}

\* C6 (as claimed): a list returns the records by date descending and, within
\* one date, the record appended later (the larger id) before the earlier one.
C6_ListNewestFirst ==
  (op = "list" /\ status = 200)
    => \A i, j \in DOMAIN listed :
         i < j => \/ TextRank(listed[i].date.s) > TextRank(listed[j].date.s)
                  \/ /\ listed[i].date = listed[j].date
                     /\ listed[i].id > listed[j].id

StrictlyIncreasing(f) == \A i, j \in DOMAIN f : i < j => f[i] < f[j]

\* C7: the ids returned by successful appends are strictly increasing in the
\* order of the appends (so pairwise distinct), every stored record carries an
\* id that one append returned, no two stored records share an id, and an id
\* that was returned and is no longer stored is never stored again.
C7_IdsNeverReused ==
  [][ /\ StrictlyIncreasing(issued')
      /\ Ids(rows') \subseteq Range(issued')
      /\ Cardinality(Ids(rows')) = Cardinality(rows')
      /\ \A id \in Range(issued) \ Ids(rows) : id \notin Ids(rows')
      /\ (op' = "list" /\ status' = 200)
           => \A i \in DOMAIN listed' : listed'[i].id \notin Range(issued) \ Ids(rows)
    ]_vars

\* C7 witness: the only record, holder of the largest id, was deleted, and the
\* append that followed returned a larger id.
C7_Witness ==
  /\ op = "append" /\ status = 200
  /\ issued = << 1, 2 >>
  /\ retId = 2
  /\ Ids(rows) = {2}

\* C8 (as claimed): every stored record has a positive number as its amount.
C8_AmountsPositive ==
  \A r \in rows : r.amount.k = "number" /\ r.amount.n > 0

\* C9: every stored record has type income or expense, a non-empty category
\* text and a date text, and an append with any other type adds no record.
C9_StoredFieldsValid ==
  [][ /\ \A r \in rows' :
           /\ r.type \in {Income, Expense}
           /\ r.category.k = "string" /\ r.category.s # ""
           /\ r.date.k = "string" /\ r.date.s # ""
      /\ AppendStep
           => \A b \in Bodies, f \in BOOLEAN :
                (b.type \notin {Income, Expense} /\ PostTransaction(b, f))
                  => (rows' = rows /\ status' # 200)
    ]_vars

\* C9 witness: an append was refused while records of both types are stored.
C9_Witness ==
  /\ op = "append" /\ status = 500
  /\ \E r \in rows : r.type = Income
  /\ \E r \in rows : r.type = Expense

\* C10: an append either stores one complete record and returns its id, or
\* answers 400 or 500, returns no id and leaves the stored records unchanged.
C10_NoPartialAppend ==
  [][ AppendStep
          => \/ /\ status' = 200
                /\ retId' # 0
                /\ \E r \in rows' :
                     /\ r \notin rows
                     /\ rows' = rows \cup {r}
                     /\ r.id = retId'
                     /\ r.amount # Null /\ r.type # Null
                     /\ r.category # Null /\ r.date # Null
             \/ /\ status' \in {400, 500}
                /\ retId' = 0
                /\ rows' = rows
    ]_vars

\* C10 witness: an append answered a failure while a record is stored.
C10_Witness ==
  /\ op = "append" /\ status \in {400, 500}
  /\ retId = 0
  /\ rows # {}

StatsStep == op' = "stats" /\ clock' = clock

\* C14: a record keeps every field for as long as it is stored; list and stats
\* leave the stored records alone, an append only adds at most one record, a
\* delete only removes at most one.
C14_RecordsImmutable ==
  [][ /\ \A r \in rows : r.id \in Ids(rows') => r \in rows'
      /\ \A r \in rows' : r.id \in Ids(rows) => r \in rows
      /\ (ListStep \/ StatsStep) => rows' = rows
      /\ AppendStep => (rows \subseteq rows' /\ Cardinality(rows' \ rows) <= 1)
      /\ DeleteStep => (rows' \subseteq rows /\ Cardinality(rows \ rows') <= 1)
    ]_vars

\* C14 witness: a list shows, a second later and after another record was
\* deleted, a record with the created_at it was given.
C14_Witness ==
  /\ op = "list" /\ status = 200
  /\ Len(issued) = 2
  /\ clock = 1
  /\ Len(listed) = 1
  /\ listed[1].created_at = 0
  /\ listed[1] \in rows

NullStats == [total_income |-> Null, total_expense |-> Null]
BothNumbers(s) == s.total_income.k = "number" /\ s.total_expense.k = "number"

\* C13: the balance shown is total_income minus total_expense of the stats the
\* App holds, and it is 0 for the stats of an empty ledger, whose totals are
\* null: those the route has just computed, those on their way to the App and
\* those the App holds.
C13_BalanceIsDifference ==
  /\ BothNumbers(client.stats)
       => balance(client.stats) = Num(client.stats.total_income.n - client.stats.total_expense.n)
  /\ client.stats = NullStats => balance(client.stats) = Num(0)
  /\ \A x \in InFlight :
       (x.sDone /\ BothNumbers(x.sStats))
         => balance(x.sStats) = Num(x.sStats.total_income.n - x.sStats.total_expense.n)
  /\ (op = "stats" /\ status = 200 /\ rows = {})
       => (stats = NullStats /\ balance(stats) = Num(0))

\* C13 witness: the App holds the null totals of a ledger that was emptied,
\* after it held totals with a balance other than 0.
C13_Witness ==
  /\ rows = {}
  /\ client.stats = NullStats
  /\ client.transactions = << >>
  /\ balance(client.stats) = Num(0)

\* The lists the claims about the derived views range over: what the App
\* displays and every list the route can answer for the stored records.
Lists == {client.transactions} \cup OrderedResults(rows)

RECURSIVE SumOfValues(_, _)
SumOfValues(cd, keys) ==
  IF keys = {} THEN Num(0)
  ELSE LET c == CHOOSE k \in keys : TRUE
       IN Plus(SumOfValues(cd, keys \ {c}), cd[c])

\* C11 (as claimed): the category breakdown of a list maps each category of an
\* expense record of the list to the sum of the amounts of the list's expense
\* records of that category and has no other key; and for a list of the
\* stored records its values add up to the total_expense of the stored records.
C11_CategoryBreakdown ==
  /\ \A ts \in Lists :
       /\ DOMAIN categoryData(ts) = {t.category : t \in {r \in Range(ts) : r.type = Expense}}
       /\ \A c \in DOMAIN categoryData(ts) :
            categoryData(ts)[c]
              = Num(SumOfAmounts({r \in Range(ts) : r.type = Expense /\ r.category = c}))
  /\ \A ts \in OrderedResults(rows) :
       SumOfValues(categoryData(ts), DOMAIN categoryData(ts)) = SqlSum("expense")

\* C12 (as claimed): the daily breakdown of a list puts every record into the
\* one group of its date, gives each group the sum of the amounts of its
\* expense records, orders the groups by date, latest first, and keeps the
\* list's order inside a group.
C12_DailyBreakdown ==
  \A ts \in Lists :
    LET g == grouped(ts)
    IN /\ \A i \in DOMAIN ts :
            /\ Cardinality({k \in DOMAIN g : ts[i] \in Range(g[k].members)}) = 1
            /\ \A k \in DOMAIN g : ts[i] \in Range(g[k].members) => g[k].date = ts[i].date
       /\ \A k \in DOMAIN g :
            /\ g[k].total = Num(SumOfAmounts({r \in Range(g[k].members) : r.type = Expense}))
            /\ \A i, j \in DOMAIN g[k].members :
                 i < j => \E a, b \in DOMAIN ts :
                            a < b /\ ts[a] = g[k].members[i] /\ ts[b] = g[k].members[j]
       /\ \A k, l \in DOMAIN g : k < l => TextRank(g[k].date.s) > TextRank(g[l].date.s)

\* C16 (as claimed): the transactions and the stats the App displays, both set
\* by one fetchData call, agree: the amounts of the displayed expense records
\* add up to the displayed total_expense and those of the income records to
\* the displayed total_income (null totals read as 0, a text amount as 0).
C16_ListMatchesStats ==
  /\ OrZero(client.stats.total_expense)
       = Num(SumOfAmounts({t \in Range(client.transactions) : t.type = Expense}))
  /\ OrZero(client.stats.total_income)
       = Num(SumOfAmounts({t \in Range(client.transactions) : t.type = Income}))

\* C17 (as claimed): once the App has nothing in flight and only the App has
\* changed the table, it displays a list of the stored records and their
\* totals, as the routes would answer them now.
C17_DisplayIsStore ==
  (net = EmptyBag /\ client.foreign = 0)
    => /\ client.transactions \in OrderedResults(rows)
       /\ client.stats = [total_income |-> SqlSum("income"), total_expense |-> SqlSum("expense")]

\* A DELETE the App sends in this step, and a successful answer to a DELETE
\* that handleDelete takes up in this step.
SendsDelete(x) == x.kind = "delete" /\ ~x.done /\ CopiesIn(x, net') > CopiesIn(x, net)
TakesSuccess(x) == x.kind = "delete" /\ x.done /\ x.ok /\ CopiesIn(x, net') < CopiesIn(x, net)

Selected == client.deletingTransaction
SelectionCleared == Selected # << >> /\ client'.deletingTransaction = << >>
TextCleared == client.deleteConfirmText # "" /\ client'.deleteConfirmText = ""

\* Every DELETE sent is for the transaction chosen and follows a text equal to
\* its category, and sending changes neither the choice nor the table.
OnlyConfirmedDeletes ==
  \A x \in BagToSet(net') :
    SendsDelete(x)
      => /\ Selected # << >>
         /\ x.param = DeletePath(Selected[1])
         /\ Str(client.deleteConfirmText) = Selected[1].category
         /\ client' = client
         /\ rows' = rows

\* handleDelete called with a text that differs (its alert is shown): nothing
\* is sent, the choice, the text and the table stay.
MismatchChangesNothing ==
  (~client.alerted /\ client'.alerted)
    => /\ Selected # << >>
       /\ Str(client.deleteConfirmText) # Selected[1].category
       /\ net' = net
       /\ rows' = rows
       /\ client'.deletingTransaction = Selected
       /\ client'.deleteConfirmText = client.deleteConfirmText

AnsweredAs(x, y) == x # y /\ CopiesIn(x, net) > 0 /\ net' = Answered(x, y)

Totals(S) ==
  IF S = {} THEN NullStats
  ELSE [ total_income |-> Num(SumOfAmounts({r \in S : r.type = Income})),
         total_expense |-> Num(SumOfAmounts({r \in S : r.type = Expense})) ]

====
